---- MODULE Spec2Model ----
(***************************************************************************)
(* Model of app.py: the /generate_recipe pipeline (two sequential calls to *)
(* the text-generation service with JSON extraction in between) and the    *)
(* /register handler over the single-table user store.                     *)
(*                                                                         *)
(* Text is modelled as a sequence of tokens.  A token is either a single   *)
(* character (t = "ch") or a complete JSON lexeme (a string literal, a     *)
(* number, the literal null) standing for its characters.  Lexemes never   *)
(* begin or end with whitespace or a backtick, and no text drawn below     *)
(* puts a lexeme right after the letters j,s,o, so strip, startswith and   *)
(* the [4:] slice act on tokens exactly as they act on the characters.     *)
(* The dataclass of lines 17-23 is read with default_factory on line 19.   *)
(***************************************************************************)
EXTENDS Integers, Sequences, FiniteSets, TLC

\* ------------------------------------------------------------------ bounds
\* Longest reply drawn exhaustively over Alphabet.
MaxLen == 2
\* Number of distinct salts generate_password_hash may draw.
MaxSalt == 1

\* ------------------------------------------------------------------ tokens
Ch(c) == [t |-> "ch", v |-> c]
StrTok(s) == [t |-> "str", v |-> s]
NumTok(d) == [t |-> "num", v |-> d]
NullTok == [t |-> "lit", v |-> "null"]

\* Characters removed by str.strip() that the replies below contain.
Whitespace == {Ch(" "), Ch("\n")}
\* The backtick character is written "<bt>" (a string holding the character
\* itself does not lex).
Backtick == {Ch("<bt>")}

RECURSIVE LStrip(_, _)
LStrip(s, chars) ==
    IF s # <<>> /\ Head(s) \in chars THEN LStrip(Tail(s), chars) ELSE s

RECURSIVE RStrip(_, _)
RStrip(s, chars) ==
    IF s # <<>> /\ s[Len(s)] \in chars
    THEN RStrip(SubSeq(s, 1, Len(s) - 1), chars)
    ELSE s

\* str.strip(chars)
Strip(s, chars) == RStrip(LStrip(s, chars), chars)

JsonTag == <<Ch("j"), Ch("s"), Ch("o"), Ch("n")>>

\* str.startswith(prefix)
StartsWith(s, prefix) ==
    Len(s) >= Len(prefix) /\ SubSeq(s, 1, Len(prefix)) = prefix

\* app.py 139-141: the cleanup applied to the extraction reply.
JsonStrCleaned(text) ==
    LET c == Strip(Strip(Strip(text, Whitespace), Backtick), Whitespace)
    IN  IF StartsWith(c, JsonTag)
        THEN Strip(SubSeq(c, Len(JsonTag) + 1, Len(c)), Whitespace)
        ELSE c

\* ------------------------------------------------------------- JSON values
JNull == [k |-> "null", v |-> <<>>]
JNum(d) == [k |-> "num", v |-> d]
JStr(s) == [k |-> "str", v |-> s]
JArr(a) == [k |-> "arr", v |-> a]
JObj(pairs) == [k |-> "obj", v |-> pairs]

Fail == [ok |-> FALSE, val |-> JNull, rest |-> <<>>]
Ok(val, rest) == [ok |-> TRUE, val |-> val, rest |-> rest]

\* json.decoder: only space, tab, newline and carriage return are skipped.
JsonWhitespace == {Ch(" "), Ch("\n")}
SkipWs(s) == LStrip(s, JsonWhitespace)

RECURSIVE ParseValue(_)
RECURSIVE ParseElements(_, _)
RECURSIVE ParseMembers(_, _)

\* json.scanner.scan_once
ParseValue(s) ==
    IF s = <<>> THEN Fail
    ELSE LET h == Head(s) IN
         CASE h.t = "str" -> Ok(JStr(h.v), Tail(s))
           [] h.t = "num" -> Ok(JNum(h.v), Tail(s))
           [] h.t = "lit" -> Ok(JNull, Tail(s))
           [] h = Ch("[") ->
                LET s1 == SkipWs(Tail(s)) IN
                IF s1 # <<>> /\ Head(s1) = Ch("]")
                THEN Ok(JArr(<<>>), Tail(s1))
                ELSE ParseElements(s1, <<>>)
           [] h = Ch("{") ->
                LET s1 == SkipWs(Tail(s)) IN
                IF s1 # <<>> /\ Head(s1) = Ch("}")
                THEN Ok(JObj(<<>>), Tail(s1))
                ELSE ParseMembers(s1, <<>>)
           [] OTHER -> Fail

\* json.decoder.JSONArray, after the opening bracket
ParseElements(s, acc) ==
    LET r == ParseValue(s) IN
    IF ~r.ok THEN Fail
    ELSE LET s2 == SkipWs(r.rest)
             acc2 == Append(acc, r.val) IN
         IF s2 = <<>> THEN Fail
         ELSE IF Head(s2) = Ch("]") THEN Ok(JArr(acc2), Tail(s2))
         ELSE IF Head(s2) = Ch(",") THEN ParseElements(SkipWs(Tail(s2)), acc2)
         ELSE Fail

\* json.decoder.JSONObject, after the opening brace
ParseMembers(s, acc) ==
    IF s = <<>> \/ Head(s).t # "str" THEN Fail
    ELSE LET key == Head(s).v
             s2 == SkipWs(Tail(s)) IN
         IF s2 = <<>> \/ Head(s2) # Ch(":") THEN Fail
         ELSE LET r == ParseValue(SkipWs(Tail(s2))) IN
              IF ~r.ok THEN Fail
              ELSE LET s4 == SkipWs(r.rest)
                       acc2 == Append(acc, <<key, r.val>>) IN
                   IF s4 = <<>> THEN Fail
                   ELSE IF Head(s4) = Ch("}") THEN Ok(JObj(acc2), Tail(s4))
                   ELSE IF Head(s4) = Ch(",")
                        THEN ParseMembers(SkipWs(Tail(s4)), acc2)
                   ELSE Fail

\* json.loads: one value, optional whitespace around it, nothing after it;
\* ok = FALSE stands for JSONDecodeError.
JsonLoads(s) ==
    LET r == ParseValue(SkipWs(s)) IN
    IF r.ok /\ SkipWs(r.rest) = <<>> THEN Ok(r.val, <<>>) ELSE Fail

\* Python truth value of a decoded JSON value.
Truthy(x) ==
    CASE x.k = "null" -> FALSE
      [] x.k = "num" -> x.v # "0"
      [] x.k = "str" -> x.v # ""
      [] OTHER -> x.v # <<>>

\* dict.get(key, default): the last pair with that key wins.
RECURSIVE DictGet(_, _, _)
DictGet(pairs, key, default) ==
    IF pairs = <<>> THEN default
    ELSE IF pairs[Len(pairs)][1] = key THEN pairs[Len(pairs)][2]
    ELSE DictGet(SubSeq(pairs, 1, Len(pairs) - 1), key, default)

\* str(x) as an f-string renders a decoded value.
PyStr(x) ==
    CASE x.k = "null" -> "None"
      [] x.k = "num" -> x.v
      [] x.k = "str" -> x.v
      [] x.k = "arr" -> "<list repr>"
      [] OTHER -> "<dict repr>"

RECURSIVE Interleave(_, _)
Interleave(items, sep) ==
    IF Len(items) <= 1 THEN items
    ELSE <<Head(items), sep>> \o Interleave(Tail(items), sep)

\* ', '.join(x): TypeError (ok = FALSE) unless x is iterable and every item
\* is a str; a dict iterates its keys, a str its characters.
Join(x) ==
    CASE x.k = "arr" ->
           IF \A i \in 1..Len(x.v) : x.v[i].k = "str"
           THEN [ok |-> TRUE,
                 parts |-> Interleave([i \in 1..Len(x.v) |-> x.v[i].v], ", ")]
           ELSE [ok |-> FALSE, parts |-> <<>>]
      [] x.k = "obj" ->
           [ok |-> TRUE,
            parts |-> Interleave([i \in 1..Len(x.v) |-> x.v[i][1]], ", ")]
      [] x.k = "str" -> [ok |-> TRUE, parts |-> <<"<chars of>", x.v>>]
      [] OTHER -> [ok |-> FALSE, parts |-> <<>>]

\* ------------------------------------------------------------ the criteria
\* Python None for a form field (request.form.get of a missing key).
None == "<None>"

NoCriteria ==
    [type |-> "None", value |-> "",
     ingredients_available |-> JNull, cuisine_preference |-> JNull,
     dietary_restrictions |-> JNull, max_prep_time_minutes |-> JNull,
     max_calories |-> JNull]

\* criteria = user_input (lines 155, 159, 163)
RawCriteria(user_input) == [NoCriteria EXCEPT !.type = "str", !.value = user_input]

\* RecipeCriteria(...) from the parsed dict (lines 144-150)
RecipeCriteria(pairs) ==
    [type |-> "RecipeCriteria", value |-> "",
     ingredients_available |-> DictGet(pairs, "ingredients_available", JArr(<<>>)),
     cuisine_preference |-> DictGet(pairs, "cuisine_preference", JNull),
     dietary_restrictions |-> DictGet(pairs, "dietary_restrictions", JArr(<<>>)),
     max_prep_time_minutes |-> DictGet(pairs, "max_prep_time_minutes", JNull),
     max_calories |-> DictGet(pairs, "max_calories", JNull)]

\* ------------------------------------------------------------- flash texts
Flash(cat, msg) == [cat |-> cat, msg |-> msg]
FlashUnavailable ==
    Flash("danger", <<"Recipe generation service is currently unavailable. Please try again later.">>)
FlashNoInput == Flash("warning", <<"Please enter your recipe request.">>)
FlashParsingBlocked ==
    Flash("warning", <<"Your request could not be processed due to safety filters. Please rephrase.">>)
FlashParsingError ==
    Flash("danger", <<"An error occurred while communicating with the recipe analysis service.">>)
FlashJsonFallback ==
    Flash("warning", <<"Sorry, I had trouble understanding the structured details of your request. Proceeding with raw text.">>)
FlashCriteriaError ==
    Flash("danger", <<"An unexpected error occurred while processing your request details.">>)
FlashEmptyFallback ==
    Flash("warning", <<"Could not get structured details from the request. Proceeding with raw text.">>)
FlashGenerationBlocked ==
    Flash("warning", <<"The recipe generation was blocked by safety filters. Please try a different request.">>)
FlashGenerationError ==
    Flash("danger", <<"An error occurred while communicating with the recipe generation service.">>)
FlashFieldsRequired == Flash("danger", <<"Email and password are required.">>)
FlashRegistered == Flash("success", <<"Registration successful! Please login.">>)
FlashAlreadyRegistered == Flash("danger", <<"Email already registered.">>)
\* f'An error occurred during registration: {e}'
FlashRegistrationError(e) ==
    Flash("danger", <<"An error occurred during registration: ", e>>)

\* ----------------------------------------------------------------- prompts
Prompt(fmt, text, lines) == [fmt |-> fmt, text |-> text, lines |-> lines]
Line(label, body, suffix) == [label |-> label, body |-> body, suffix |-> suffix]

\* lines 97-110
ParsingPrompt(user_input) == Prompt("parsing", user_input, <<>>)

\* lines 180-186: the raw-text generation prompt
RawPrompt(text) == Prompt("raw", text, <<>>)

LblIngredients == "- Ingredients Available: "
LblCuisine == "- Cuisine Preference: "
LblRestrictions == "- Dietary Restrictions: "
LblPrepTime == "- Maximum Prep Time: "
LblCalories == "- Maximum Calories: "

\* One `if criteria.<field>: generation_prompt += ...` of lines 168-177.
JoinedLine(label, x) ==
    IF Truthy(x) THEN <<Line(label, Join(x).parts, "")>> ELSE <<>>
ScalarLine(label, x, suffix) ==
    IF Truthy(x) THEN <<Line(label, <<PyStr(x)>>, suffix)>> ELSE <<>>

\* lines 166-186.  ok = FALSE: a join raised TypeError, outside any try.
BuildGenerationPrompt(c) ==
    IF c.type = "RecipeCriteria"
    THEN IF \/ Truthy(c.ingredients_available) /\ ~Join(c.ingredients_available).ok
            \/ Truthy(c.dietary_restrictions) /\ ~Join(c.dietary_restrictions).ok
         THEN [ok |-> FALSE, prompt |-> Prompt("none", "", <<>>)]
         ELSE [ok |-> TRUE,
               prompt |-> Prompt("criteria", "",
                   JoinedLine(LblIngredients, c.ingredients_available)
                   \o ScalarLine(LblCuisine, c.cuisine_preference, "")
                   \o JoinedLine(LblRestrictions, c.dietary_restrictions)
                   \o ScalarLine(LblPrepTime, c.max_prep_time_minutes, " minutes")
                   \o ScalarLine(LblCalories, c.max_calories, " kcal"))]
    ELSE [ok |-> TRUE, prompt |-> RawPrompt(c.value)]

\* ParseCriteria with the except branch of line 152 leaving criteria as None.
ParseCriteria_NoFallback(text, user_input) ==
    IF text = <<>>
    THEN [criteria |-> RawCriteria(user_input), flashes |-> <<FlashEmptyFallback>>]
    ELSE LET r == JsonLoads(JsonStrCleaned(text)) IN
         IF ~r.ok
         THEN [criteria |-> NoCriteria, flashes |-> <<FlashJsonFallback>>]
         ELSE IF r.val.k # "obj"
         THEN [criteria |-> RawCriteria(user_input), flashes |-> <<FlashCriteriaError>>]
         ELSE [criteria |-> RecipeCriteria(r.val.v), flashes |-> <<>>]

\* lines 135-163: Step 3, the reply text turned into criteria (or the raw
\* user text) plus the message flashed on the way.
ParseCriteria(text, user_input) ==
    IF text = <<>>
    THEN [criteria |-> RawCriteria(user_input), flashes |-> <<FlashEmptyFallback>>]
    ELSE LET r == JsonLoads(JsonStrCleaned(text)) IN
         IF ~r.ok
         THEN [criteria |-> RawCriteria(user_input), flashes |-> <<FlashJsonFallback>>]
         ELSE IF r.val.k # "obj"   \* parsed_data.get raises AttributeError
         THEN [criteria |-> RawCriteria(user_input), flashes |-> <<FlashCriteriaError>>]
         ELSE [criteria |-> RecipeCriteria(r.val.v), flashes |-> <<>>]

\* ------------------------------------------------- the generation service
\* gemini_model.generate_content(prompt): it raises, or returns a response
\* without parts (withheld), or a response whose parts carry text.
Raise(detail) == [kind |-> "raise", detail |-> detail]
Blocked == [kind |-> "blocked", detail |-> "prompt_feedback"]
Parts == [kind |-> "parts", detail |-> ""]
ErrorDetails == {"503 deadline exceeded", "403 API key not valid"}
CallOutcomes == {Blocked, Parts} \cup {Raise(d) : d \in ErrorDetails}

\* ExtractionAborts without the `if not response.parts` return of line 123.
ExtractionAborts_RaiseOnly(outcome) == outcome.kind = "raise"

\* lines 114-132: does the extraction call end the request?
ExtractionAborts(outcome) == outcome.kind \in {"blocked", "raise"}
ExtractionFlash(outcome) ==
    IF outcome.kind = "blocked" THEN FlashParsingBlocked ELSE FlashParsingError

Placeholder == "Placeholder: Recipe generation failed."

\* GenerationResult reading response.text before looking at the parts.
GenerationResult_UsesText(outcome, text) ==
    CASE outcome.kind = "parts" -> [text |-> text, flashes |-> <<>>]
      [] outcome.kind = "blocked" ->
           [text |-> text, flashes |-> <<FlashGenerationBlocked>>]
      [] OTHER -> [text |-> Placeholder, flashes |-> <<FlashGenerationError>>]

\* lines 190-208: the recipe text and the notice after the second call.
GenerationResult(outcome, text) ==
    CASE outcome.kind = "parts" -> [text |-> text, flashes |-> <<>>]
      [] outcome.kind = "blocked" ->
           [text |-> Placeholder, flashes |-> <<FlashGenerationBlocked>>]
      [] OTHER -> [text |-> Placeholder, flashes |-> <<FlashGenerationError>>]

\* Falsy written as `x is None`.
Falsy_NoneOnly(x) == x = None

\* `not x` for a form field or an environment variable
Falsy(x) == x = None \/ x = ""

\* ConfigureGemini testing `api_key is None` only.
ConfigureGemini_NoneOnly(key) == IF key = None THEN "None" ELSE "GenerativeModel"

\* lines 33-45: the client handle, None when the key is absent.
ConfigureGemini(key) == IF Falsy(key) THEN "None" ELSE "GenerativeModel"

\* ------------------------------------------------------------ the storage
\* The user table of init_db: whether it exists, its rows in insertion
\* order, and the AUTOINCREMENT sequence.
EmptyDb == [exists |-> FALSE, rows |-> <<>>, seq |-> 0]

Emails(d) == {d.rows[i].email : i \in 1..Len(d.rows)}

\* generate_password_hash: a salted one-way digest of the password.
GeneratePasswordHash(password, salt) ==
    [method |-> "scrypt", salt |-> salt, digest |-> <<"H", salt, password>>]

\* InsertUser over a table whose email column is not UNIQUE.
InsertUser_NoUnique(d, email, password_hash, fault) ==
    IF ~d.exists
    THEN [exc |-> "OperationalError", detail |-> "no such table: user", db |-> d]
    ELSE IF fault # ""
    THEN [exc |-> "OperationalError", detail |-> fault, db |-> d]
    ELSE [exc |-> "", detail |-> "",
          db |-> [d EXCEPT !.seq = d.seq + 1,
                           !.rows = Append(d.rows,
                               [id |-> d.seq + 1, email |-> email,
                                password_hash |-> password_hash])]]

\* cursor.execute(INSERT ...) followed by conn.commit() (lines 231-232).
\* exc names what was raised: IntegrityError for the UNIQUE column,
\* OperationalError for a missing table or a fault of the storage engine.
InsertUser(d, email, password_hash, fault) ==
    IF ~d.exists
    THEN [exc |-> "OperationalError", detail |-> "no such table: user", db |-> d]
    ELSE IF email \in Emails(d)
    THEN [exc |-> "IntegrityError",
          detail |-> "UNIQUE constraint failed: user.email", db |-> d]
    ELSE IF fault # ""
    THEN [exc |-> "OperationalError", detail |-> fault, db |-> d]
    ELSE [exc |-> "", detail |-> "",
          db |-> [d EXCEPT !.seq = d.seq + 1,
                           !.rows = Append(d.rows,
                               [id |-> d.seq + 1, email |-> email,
                                password_hash |-> password_hash])]]

\* lines 233-237: the message flashed for each way the insert ends.
RegisterFlash(r) ==
    CASE r.exc = "" -> FlashRegistered
      [] r.exc = "IntegrityError" -> FlashAlreadyRegistered
      [] OTHER -> FlashRegistrationError(r.detail)

\* lines 55-58: get_db() hands out one more open connection.
GetDb(c) == [c EXCEPT !.opened = c.opened + 1, !.open = c.open + 1]

\* ConnAfterFinally with conn.close() after the commit instead of in finally.
ConnAfterFinally_OnlyOnSuccess(exc, open) == IF exc = "" THEN open - 1 ELSE open

\* lines 238-239: finally: conn.close(), whatever the insert did.
ConnAfterFinally(exc, open) == open - 1

\* line 10: the names imported from flask.
FlaskImports ==
    {"Flask", "render_template", "request", "redirect", "url_for", "flash", "session"}
\* The endpoints the routes of the module register.
Endpoints == {"static", "index", "generate_recipe", "register", "profile", "logout"}

Response(kind, to) == [kind |-> kind, to |-> to]
NoResponse == Response("none", "")

\* redirect(url_for(endpoint)): url_for raises BuildError for an unknown one.
Redirect(endpoint) ==
    IF endpoint \in Endpoints THEN Response("redirect", endpoint)
    ELSE Response("fault", "BuildError")

\* lines 241-245: the redirect chosen from the flashed messages.
RegisterRedirect(fl) ==
    IF "get_flashed_messages" \notin FlaskImports
    THEN Response("fault", "NameError")
    ELSE IF \E i \in 1..Len(fl) : fl[i].msg = <<"Registration successful!">>
    THEN Redirect("login")
    ELSE Redirect("register")

\* ------------------------------------------------------------------- state
VARIABLES
    api_key,                   \* os.getenv("GOOGLE_API_KEY") at import
    gemini_model,              \* the module-level client handle
    db,                        \* the user table
    pc,                        \* where the request being served stands
    handler,                   \* the view function serving it
    user_input,                \* request.form.get('recipe_input')
    llm_parsing_response_str,  \* the extraction reply text
    criteria,
    generation_prompt,
    generated_recipe_text,
    response,                  \* what the view returned (or the fault raised)
    flashes,                   \* messages flashed during the request
    calls,                     \* prompts passed to generate_content
    outcomes,                  \* how each of those calls, or the insert, ended
    form,                      \* the registration form fields
    conn                       \* connections opened / still open / writes

vars == <<api_key, gemini_model, db, pc, handler, user_input,
          llm_parsing_response_str, criteria, generation_prompt,
          generated_recipe_text, response, flashes, calls, outcomes, form, conn>>

NoForm == [method |-> "", email |-> None, password |-> None, password_hash |-> <<>>]
NoConn == [opened |-> 0, open |-> 0, writes |-> 0]

\* ------------------------------------------------------------------ inputs
ApiKeys == {None, "", "AIza-key"}
RecipeInputs == {None, "", "chicken and rice, vegan, under 30 minutes"}
FormEmails == {None, "", "a@b.com", "c@d.com"}
FormPasswords == {None, "", "hunter2"}
Salts == 1..MaxSalt
StorageFaults == {"", "disk I/O error", "database is locked"}
RecipeTexts == {"", "Vegan rice bowl: ..."}

Alphabet == {Ch(" "), Ch("<bt>"), Ch("{"), Ch("}"), Ch("x"), NumTok("0")}
SeqsUpTo(S, n) == UNION {[1..m -> S] : m \in 0..n}

Fence == <<Ch("<bt>"), Ch("<bt>"), Ch("<bt>")>>
Pair(key, valueTokens) == <<StrTok(key), Ch(":"), Ch(" ")>> \o valueTokens
Object(members) == <<Ch("{")>> \o members \o <<Ch("}")>>
List1(a) == <<Ch("["), a, Ch("]")>>
List2(a, b) == <<Ch("["), a, Ch(","), Ch(" "), b, Ch("]")>>
Comma == <<Ch(","), Ch(" ")>>

\* The reply of the spec's scenario, fenced and tagged as the service does.
ReplyScenario ==
    Fence \o JsonTag \o <<Ch("\n")>>
    \o Object(Pair("ingredients_available", List2(StrTok("chicken"), StrTok("rice")))
              \o Comma \o Pair("cuisine_preference", <<NullTok>>)
              \o Comma \o Pair("dietary_restrictions", List1(StrTok("vegan")))
              \o Comma \o Pair("max_prep_time_minutes", <<NumTok("30")>>)
              \o Comma \o Pair("max_calories", <<NullTok>>))
    \o <<Ch("\n")>> \o Fence
ReplyAllFields ==
    Object(Pair("ingredients_available", List1(StrTok("rice")))
           \o Comma \o Pair("cuisine_preference", <<StrTok("thai")>>)
           \o Comma \o Pair("dietary_restrictions", List1(StrTok("vegan")))
           \o Comma \o Pair("max_prep_time_minutes", <<NumTok("45")>>)
           \o Comma \o Pair("max_calories", <<NumTok("500")>>))
ReplyZeroCalories == Object(Pair("max_calories", <<NumTok("0")>>))
ReplyZeroPrepTime ==
    Object(Pair("max_prep_time_minutes", <<NumTok("0")>>)
           \o Comma \o Pair("cuisine_preference", <<StrTok("thai")>>))
ReplyEmptyLists ==
    JsonTag \o Object(Pair("ingredients_available", <<Ch("["), Ch("]")>>)
                      \o Comma \o Pair("dietary_restrictions", <<Ch("["), Ch("]")>>))
ReplyNumberInList == Object(Pair("ingredients_available", List1(NumTok("1"))))
ReplyArray == <<Ch("["), Ch("]")>>
ReplyTagOnly == Fence \o JsonTag \o Fence
ReplyProse == <<Ch("x"), Ch(" ")>> \o ReplyZeroCalories
ReplyTruncated == <<Ch("{")>> \o Pair("max_calories", <<NumTok("500")>>)
ReplyTrailingComma == <<Ch("["), NumTok("1"), Ch(","), Ch("]")>>

CraftedReplies ==
    {ReplyScenario, ReplyAllFields, ReplyZeroCalories, ReplyZeroPrepTime,
     ReplyEmptyLists, ReplyNumberInList, ReplyArray, ReplyTagOnly, ReplyProse,
     ReplyTruncated, ReplyTrailingComma}

\* response.text of the extraction call
ExtractionTexts == SeqsUpTo(Alphabet, MaxLen) \cup CraftedReplies

\* ------------------------------------------------------------------- Init
\* Module import: the key is read once and the handle built from it; the
\* database file holds no table until init-db is run.
Init ==
    /\ api_key \in ApiKeys
    /\ gemini_model = ConfigureGemini(api_key)
    /\ db = EmptyDb
    /\ pc = "idle"
    /\ handler = "none"
    /\ user_input = None
    /\ llm_parsing_response_str = <<>>
    /\ criteria = NoCriteria
    /\ generation_prompt = Prompt("none", "", <<>>)
    /\ generated_recipe_text = ""
    /\ response = NoResponse
    /\ flashes = <<>>
    /\ calls = <<>>
    /\ outcomes = <<>>
    /\ form = NoForm
    /\ conn = NoConn

Serving == pc \notin {"idle", "done"}

\* A new request starts with nothing left over from the one before.
FreshRequest(h) ==
    /\ ~Serving
    /\ handler' = h
    /\ llm_parsing_response_str' = <<>>
    /\ criteria' = NoCriteria
    /\ generation_prompt' = Prompt("none", "", <<>>)
    /\ generated_recipe_text' = ""
    /\ calls' = <<>>
    /\ outcomes' = <<>>
    /\ UNCHANGED <<api_key, gemini_model, db>>

\* ------------------------------------------------------- /generate_recipe
\* lines 84-111: POST /generate_recipe up to the first call.
GenerateRecipe(input) ==
    /\ FreshRequest("generate_recipe")
    /\ user_input' = input
    /\ form' = NoForm
    /\ conn' = NoConn
    /\ IF gemini_model = "None"
       THEN /\ flashes' = <<FlashUnavailable>>
            /\ response' = Redirect("index")
            /\ pc' = "done"
       ELSE IF Falsy(input)
       THEN /\ flashes' = <<FlashNoInput>>
            /\ response' = Redirect("index")
            /\ pc' = "done"
       ELSE /\ flashes' = <<>>
            /\ response' = NoResponse
            /\ pc' = "extract"

\* lines 113-132: the extraction call and how it ends.
ExtractionCall(outcome, text) ==
    /\ pc = "extract"
    /\ calls' = Append(calls, ParsingPrompt(user_input))
    /\ outcomes' = Append(outcomes, outcome)
    /\ IF ExtractionAborts(outcome)
       THEN /\ flashes' = Append(flashes, ExtractionFlash(outcome))
            /\ response' = Redirect("index")
            /\ pc' = "done"
            /\ UNCHANGED llm_parsing_response_str
       ELSE /\ llm_parsing_response_str' = text
            /\ pc' = "parse"
            /\ UNCHANGED <<flashes, response>>
    /\ UNCHANGED <<api_key, gemini_model, db, handler, user_input, criteria,
                   generation_prompt, generated_recipe_text, form, conn>>

\* lines 134-188: the reply parsed into criteria and the generation prompt
\* built from them.
ParseAndBuild ==
    /\ pc = "parse"
    /\ LET p == ParseCriteria(llm_parsing_response_str, user_input)
           b == BuildGenerationPrompt(p.criteria)
       IN  /\ criteria' = p.criteria
           /\ flashes' = flashes \o p.flashes
           /\ IF b.ok
              THEN /\ generation_prompt' = b.prompt
                   /\ pc' = "generate"
                   /\ UNCHANGED response
              ELSE /\ response' = Response("fault", "TypeError")
                   /\ pc' = "done"
                   /\ UNCHANGED generation_prompt
    /\ UNCHANGED <<api_key, gemini_model, db, handler, user_input,
                   llm_parsing_response_str, generated_recipe_text, calls,
                   outcomes, form, conn>>

\* lines 190-211: the generation call, then the page is rendered.
GenerationCall(outcome, text) ==
    /\ pc = "generate"
    /\ calls' = Append(calls, generation_prompt)
    /\ outcomes' = Append(outcomes, outcome)
    /\ LET g == GenerationResult(outcome, text)
       IN  /\ generated_recipe_text' = g.text
           /\ flashes' = flashes \o g.flashes
    /\ response' = Response("render", "index.html")
    /\ pc' = "done"
    /\ UNCHANGED <<api_key, gemini_model, db, handler, user_input,
                   llm_parsing_response_str, criteria, generation_prompt,
                   form, conn>>

\* -------------------------------------------------------------- /register
\* lines 218-229 and 247: GET renders the form; POST checks the fields,
\* hashes the password and opens the connection.
Register(method, email, password, salt) ==
    /\ FreshRequest("register")
    /\ user_input' = None
    /\ IF method = "GET"
       THEN /\ form' = [NoForm EXCEPT !.method = method]
            /\ conn' = NoConn
            /\ flashes' = <<>>
            /\ response' = Response("render", "register.html")
            /\ pc' = "done"
       ELSE IF Falsy(email) \/ Falsy(password)
       THEN /\ form' = [NoForm EXCEPT !.method = method, !.email = email,
                                      !.password = password]
            /\ conn' = NoConn
            /\ flashes' = <<FlashFieldsRequired>>
            /\ response' = Redirect("register")
            /\ pc' = "done"
       ELSE /\ form' = [method |-> method, email |-> email, password |-> password,
                        password_hash |-> GeneratePasswordHash(password, salt)]
            /\ conn' = GetDb(NoConn)
            /\ flashes' = <<>>
            /\ response' = NoResponse
            /\ pc' = "insert"

\* lines 230-245: the insert is attempted, the connection closed, and the
\* redirect chosen.
RegisterInsert(fault) ==
    /\ pc = "insert"
    /\ LET r == InsertUser(db, form.email, form.password_hash, fault)
           fl == Append(flashes, RegisterFlash(r))
       IN  /\ db' = r.db
           /\ flashes' = fl
           /\ outcomes' = Append(outcomes, [kind |-> r.exc, detail |-> r.detail])
           /\ conn' = [conn EXCEPT !.open = ConnAfterFinally(r.exc, conn.open),
                                   !.writes = conn.writes + 1]
           /\ response' = RegisterRedirect(fl)
    /\ pc' = "done"
    /\ UNCHANGED <<api_key, gemini_model, handler, user_input,
                   llm_parsing_response_str, criteria, generation_prompt,
                   generated_recipe_text, calls, form>>

\* lines 60-76: flask init-db, run from the command line at any time.
InitDb ==
    /\ db' = [db EXCEPT !.exists = TRUE]
    /\ UNCHANGED <<api_key, gemini_model, pc, handler, user_input,
                   llm_parsing_response_str, criteria, generation_prompt,
                   generated_recipe_text, response, flashes, calls, outcomes,
                   form, conn>>

Next ==
    \/ \E input \in RecipeInputs : GenerateRecipe(input)
    \/ \E o \in CallOutcomes, t \in ExtractionTexts : ExtractionCall(o, t)
    \/ ParseAndBuild
    \/ \E o \in CallOutcomes, t \in RecipeTexts : GenerationCall(o, t)
    \/ \E m \in {"GET", "POST"}, e \in FormEmails, p \in FormPasswords, s \in Salts :
          Register(m, e, p, s)
    \/ \E f \in StorageFaults : RegisterInsert(f)
    \/ InitDb

Spec == Init /\ [][Next]_vars

\* ================================================================== claims
InGenerateRecipe == handler = "generate_recipe"
InRegister == handler = "register"
LastFlash == flashes[Len(flashes)]

\* The extraction call returned text, and the text is not JSON once cleaned.
ReplyIsNotJson ==
    /\ InGenerateRecipe
    /\ pc \in {"generate", "done"}
    /\ Len(outcomes) >= 1
    /\ outcomes[1].kind = "parts"
    /\ llm_parsing_response_str # <<>>
    /\ ~JsonLoads(JsonStrCleaned(llm_parsing_response_str)).ok

\* C1: a reply with content that is not valid JSON after the cleanup does
\* not abort the request: criteria is the raw user text, the generation
\* prompt is the raw-text prompt for that text, and the request ends only
\* after the second call was issued with that prompt.
C1_NonJsonReplyFallsBack ==
    ReplyIsNotJson =>
        /\ criteria.type = "str"
        /\ criteria.value = user_input
        /\ generation_prompt = RawPrompt(user_input)
        /\ FlashJsonFallback = flashes[1]
        /\ pc = "done" =>
              /\ Len(calls) = 2
              /\ calls[2] = RawPrompt(user_input)
              /\ response = Response("render", "index.html")

C1_Witness ==
    /\ ReplyIsNotJson
    /\ pc = "done"
    /\ Len(calls) = 2
    /\ llm_parsing_response_str = ReplyProse

\* The first call was withheld (no parts) or raised.
ExtractionFailed ==
    /\ InGenerateRecipe
    /\ Len(outcomes) >= 1
    /\ outcomes[1].kind \in {"blocked", "raise"}

\* The first call returned parts whose text is empty.
ExtractionEmpty ==
    /\ InGenerateRecipe
    /\ pc \in {"generate", "done"}
    /\ Len(outcomes) >= 1
    /\ outcomes[1].kind = "parts"
    /\ llm_parsing_response_str = <<>>

NoSecondCall ==
    /\ Len(calls) = 1
    /\ criteria.type = "None"
    /\ generation_prompt.fmt = "none"
    /\ flashes # <<>>
    /\ response = Response("redirect", "index")

\* C2 as stated: a first call that is withheld, returns no usable content or
\* raises ends the request without criteria and without a second call.
C2_Original == (ExtractionFailed \/ ExtractionEmpty) => NoSecondCall

\* C2 amended: a first call that is withheld (a response without parts) or
\* raises ends the request: no criteria, one message flashed, no second call.
\* A response that has parts but empty text does not end it: the handler
\* falls back to the raw user text, warns, and issues the second call.
C2_ExtractionFailureStopsPipeline ==
    /\ ExtractionFailed =>
          /\ pc = "done"
          /\ NoSecondCall
          /\ flashes = <<IF outcomes[1].kind = "blocked"
                         THEN FlashParsingBlocked ELSE FlashParsingError>>
    /\ ExtractionEmpty =>
          /\ criteria.type = "str"
          /\ criteria.value = user_input
          /\ flashes[1] = FlashEmptyFallback
          /\ generation_prompt = RawPrompt(user_input)
          /\ pc = "done" => Len(calls) = 2

C2_Witness ==
    /\ ExtractionFailed
    /\ outcomes[1].kind = "blocked"
    /\ pc = "done"
    /\ Len(calls) = 1

\* C3: a POST to /generate_recipe with an empty or missing recipe_input
\* makes no call to the service and flashes one message: the request for
\* input when the client is enabled, the unavailable notice when it is not.
C3_EmptyInputMakesNoCall ==
    (InGenerateRecipe /\ user_input \in {None, ""}) =>
        /\ pc = "done"
        /\ calls = <<>>
        /\ outcomes = <<>>
        /\ response = Response("redirect", "index")
        /\ flashes = <<IF gemini_model = "None"
                       THEN FlashUnavailable ELSE FlashNoInput>>

C3_Witness ==
    /\ InGenerateRecipe
    /\ pc = "done"
    /\ user_input = ""
    /\ gemini_model # "None"
    /\ flashes = <<FlashNoInput>>

\* Number of lines of the generation prompt that carry a label.
LinesOf(label) ==
    Cardinality({i \in 1..Len(generation_prompt.lines) :
                    generation_prompt.lines[i].label = label})
PopulatedList(x) == x.k = "arr" /\ x.v # <<>>
PopulatedString(x) == x.k # "null"
PopulatedInteger(x) == x.k = "num"
Expect(populated) == IF populated THEN 1 ELSE 0

\* C4 as stated: the prompt built from structured criteria has exactly one
\* line for each populated field (a non-empty list, a non-null cuisine, a
\* non-null non-negative prep time or calorie limit) and none for the rest.
C4_Original ==
    (InGenerateRecipe /\ pc \in {"generate", "done"}
        /\ criteria.type = "RecipeCriteria" /\ generation_prompt.fmt = "criteria") =>
        /\ LinesOf(LblIngredients) = Expect(PopulatedList(criteria.ingredients_available))
        /\ LinesOf(LblCuisine) = Expect(PopulatedString(criteria.cuisine_preference))
        /\ LinesOf(LblRestrictions) = Expect(PopulatedList(criteria.dietary_restrictions))
        /\ LinesOf(LblPrepTime) = Expect(PopulatedInteger(criteria.max_prep_time_minutes))
        /\ LinesOf(LblCalories) = Expect(PopulatedInteger(criteria.max_calories))

\* The second call was withheld or raised.
GenerationFailed ==
    /\ InGenerateRecipe
    /\ Len(outcomes) = 2
    /\ outcomes[2].kind \in {"blocked", "raise"}

\* C5: when the generation call is withheld or raises, the page is still
\* rendered, the recipe shown is the placeholder, and one notice is flashed.
C5_GenerationFailureShowsPlaceholder ==
    GenerationFailed =>
        /\ pc = "done"
        /\ generated_recipe_text = Placeholder
        /\ response = Response("render", "index.html")
        /\ LastFlash = IF outcomes[2].kind = "blocked"
                       THEN FlashGenerationBlocked ELSE FlashGenerationError

C5_Witness ==
    /\ GenerationFailed
    /\ outcomes[2].kind = "raise"
    /\ generated_recipe_text = Placeholder
    /\ response.kind = "render"

UniqueEmails ==
    \A i, j \in 1..Len(db.rows) : db.rows[i].email = db.rows[j].email => i = j

BothFieldsSupplied ==
    /\ InRegister
    /\ form.method = "POST"
    /\ form.email \notin {None, ""}
    /\ form.password \notin {None, ""}

\* C7 as stated: a POST to /register with both fields ends in a response,
\* never in an unhandled exception, and a successful insert redirects to
\* the login page.
C7_Original ==
    (BothFieldsSupplied /\ pc = "done") =>
        /\ response.kind = "redirect"
        /\ outcomes[1].kind = "" => response.to = "login"

\* C8: with no credential at start the handle is None and stays None, and
\* every POST to /generate_recipe, whatever its input, is answered with the
\* unavailable notice and a redirect, without a call to the service.
C8_NoCredentialDisablesService ==
    api_key \in {None, ""} =>
        /\ gemini_model = "None"
        /\ InGenerateRecipe =>
              /\ pc = "done"
              /\ calls = <<>>
              /\ outcomes = <<>>
              /\ flashes = <<FlashUnavailable>>
              /\ response = Response("redirect", "index")

C8_Witness ==
    /\ api_key = ""
    /\ InGenerateRecipe
    /\ pc = "done"
    /\ user_input \notin {None, ""}
    /\ flashes = <<FlashUnavailable>>

\* C9: a registration with both fields opens exactly one connection, makes
\* at most one write on it, and has closed it when the handler is left,
\* however the insert ended; a registration rejected for a missing field,
\* like every request that does not touch the storage, opens none and
\* writes nothing.
C9_OneConnectionClosedOnEveryPath ==
    /\ conn.opened <= 1
    /\ conn.writes <= conn.opened
    /\ conn.open = IF pc = "insert" THEN 1 ELSE 0
    /\ (BothFieldsSupplied /\ pc = "done") =>
          conn = [opened |-> 1, open |-> 0, writes |-> 1]
    /\ ~BothFieldsSupplied => conn = NoConn

C9_Witness ==
    /\ BothFieldsSupplied
    /\ pc = "done"
    /\ outcomes[1].kind = "OperationalError"
    /\ conn = [opened |-> 1, open |-> 0, writes |-> 1]

\* C10 as stated: no message shown to the user carries the detail of the
\* failure that caused it (the text of the exception or the payload).
C10_Original ==
    \A i \in 1..Len(flashes) : \A j \in 1..Len(outcomes) :
        outcomes[j].detail # "" =>
            \A k \in 1..Len(flashes[i].msg) : flashes[i].msg[k] # outcomes[j].detail

====
